---- MODULE Spec2Model ----
(***************************************************************************)
(* KubernetesService of @tokenring-ai/kubernetes: the constructor and the  *)
(* discovery traversal listAllApiResourceTypes, run against a cluster      *)
(* whose answers to the five kinds of network call are fixed per           *)
(* behaviour.  Every await of the traversal is a suspension point: one     *)
(* action runs the code from the completion of the awaited call to the     *)
(* issue of the next one.                                                  *)
(***************************************************************************)
EXTENDS Integers, Sequences, FiniteSets, TLC

\* Number of times listAllApiResourceTypes is invoked on the service.
MaxRuns == 2

(***************************************************************************)
(* JavaScript values.  A string-valued slot holds a string or undefined;   *)
(* an object is a record and a missing property is a missing field.        *)
(***************************************************************************)
undefined == "<undefined>"

\* ToBoolean of a string | undefined
Truthy(v) == v # undefined /\ v # ""

\* a || b
OrElse(a, b) == IF Truthy(a) THEN a ELSE b

\* a ?? b
Coalesce(a, b) == IF a = undefined THEN b ELSE a

\* o.f of an object o
Get(o, f) == IF f \in DOMAIN o THEN o[f] ELSE undefined

\* o.metadata?.f
MetadataOf(o, f) == IF "metadata" \in DOMAIN o THEN Get(o.metadata, f) ELSE undefined

\* A groupVersion string is kept as its sequence of characters, so that
\* split("/") is computed the way String.prototype.split computes it.
RECURSIVE SplitFrom(_, _, _)
SplitFrom(chars, sep, cur) ==
    IF chars = <<>> THEN <<cur>>
    ELSE IF Head(chars) = sep THEN <<cur>> \o SplitFrom(Tail(chars), sep, <<>>)
    ELSE SplitFrom(Tail(chars), sep, Append(cur, Head(chars)))

Split(chars, sep) == SplitFrom(chars, sep, <<>>)

RECURSIVE Str(_)
Str(chars) == IF chars = <<>> THEN "" ELSE Head(chars) \o Str(Tail(chars))

\* arr[i] of a JavaScript array of strings (0-based; undefined past the end)
At(arr, i) == IF i + 1 <= Len(arr) THEN Str(arr[i + 1]) ELSE undefined

\* s.includes(x) of an array
Includes(arr, x) == \E i \in 1..Len(arr) : arr[i] = x

(***************************************************************************)
(* The cluster: what each network call answers.                            *)
(***************************************************************************)
Rejected(msg) == [ok |-> FALSE, message |-> msg]
Resolved(v) == [ok |-> TRUE, value |-> v]

NsItem(n) == [metadata |-> [name |-> n]]

NamespaceOutcomes ==
    { Rejected("namespaces is forbidden"),
      Resolved([items |-> <<NsItem("ns-a"), NsItem("ns-b")>>]),
      Resolved([items |-> <<NsItem("default"), NsItem("kube-system")>>]),
      Resolved([items |-> <<>>]) }

AppsV1 == <<"a", "p", "p", "s", "/", "v", "1">>
BatchV1 == <<"b", "a", "t", "c", "h", "/", "v", "1">>

GroupOutcomes ==
    { Rejected("apis unreachable"),
      Resolved([kind |-> "APIGroupList"]),
      Resolved([groups |-> << [name |-> "apps", preferredVersion |-> [groupVersion |-> AppsV1]],
                              [name |-> "legacy"],
                              [name |-> "odd", preferredVersion |-> [version |-> "v1"]],
                              [name |-> "batch", preferredVersion |-> [groupVersion |-> BatchV1]] >>]) }

Pod == [kind |-> "Pod", name |-> "pods", namespaced |-> TRUE, verbs |-> <<"get", "list">>]
PodLog == [kind |-> "Pod", name |-> "pods/log", namespaced |-> TRUE, verbs |-> <<"get">>]
Binding == [kind |-> "Binding", name |-> "bindings", namespaced |-> TRUE]
Deployment == [group |-> "apps", version |-> "v1", kind |-> "Deployment",
               name |-> "deployments", namespaced |-> TRUE, verbs |-> <<"list">>]
Node == [kind |-> "Node", name |-> "nodes", namespaced |-> FALSE, verbs |-> <<"list", "watch">>]

\* Bodies the resource-discovery endpoint of the core client answers with.
ResourceBodies ==
    { [groupVersion |-> "v1", resources |-> <<Pod, PodLog, Binding, Deployment, Node>>],
      [groupVersion |-> "v1", resources |-> <<Node, PodLog, Pod>>] }

\* Occasions (1 = the first discovery call of a traversal) on which the discovery call is rejected.
DiscFailChoices == { {}, {1}, {2} }

\* (plural, namespace) listings that may be rejected; undefined = cluster scope.
FailKeys == { <<"pods", "default">>, <<"pods", "kube-system">>,
              <<"deployments", "default">>, <<"nodes", undefined>> }

Clusters ==
    [ namespaces : NamespaceOutcomes, apiGroups : GroupOutcomes,
      apiResources : ResourceBodies, discFail : DiscFailChoices,
      listFail : SUBSET FailKeys ]

\* The objects stored in the cluster, as a listing of (plural, namespace) returns them.
Objects(plural, ns) ==
    IF plural = "pods" /\ ns = "default"
      THEN [items |-> << [metadata |-> [namespace |-> ns, name |-> "nginx"]] >>]
    ELSE IF plural = "deployments"
      THEN [items |-> << [metadata |-> [namespace |-> "mirror", name |-> "web"]],
                         [kind |-> "Deployment"] >>]
    ELSE IF plural = "nodes"
      THEN [items |-> << [metadata |-> [name |-> "node-1"]] >>]
    ELSE [kind |-> "List"]

(***************************************************************************)
(* Constructor arguments.                                                  *)
(***************************************************************************)
Params(cn, url, ns, tok, crt, key) ==
    [clusterName |-> cn, apiServerUrl |-> url, namespace |-> ns, token |-> tok,
     clientCertificate |-> crt, clientKey |-> key, caCertificate |-> undefined]

Configs ==
    { Params("c1", "https://k8s:6443", ns, tok, undefined, undefined) :
        ns \in {undefined, "", "kube-system"}, tok \in {undefined, "tok"} }
    \cup
    { Params(cn, url, undefined, undefined, undefined, undefined) :
        cn \in {undefined, "", "c1"}, url \in {undefined, "", "https://k8s:6443"} }
    \cup
    { Params("c1", "https://k8s:6443", undefined, tok, crt, key) :
        tok \in {undefined, "tok"}, crt \in {undefined, "crt"}, key \in {undefined, "key"} }
    \cup
    { Params("c1", "https://k8s:6443", undefined, "", "crt", "key") }

VARIABLES
    cluster,          \* the cluster the service talks to
    cfg,              \* the argument of new KubernetesService(...)
    svcState,         \* "new" | "ok" | "failed"
    ctorError,        \* message of the Error the constructor threw
    this,             \* the fields of the constructed service
    runs,             \* invocations of listAllApiResourceTypes so far
    pc,               \* the await the traversal is suspended at
    kc,               \* kc.loadFromOptions argument
    allResources, namespacesToScan, groupVersion, resources, ri, ni, groups, gi,
    inflight,         \* network calls issued and not completed
    calls,            \* network calls issued by the current traversal, in order
    returned,         \* value the last completed traversal resolved with
    thrown,           \* message of the error the current traversal rejected with
    registry,         \* the registry (or agent) handed to the tool's execute
    impl,             \* which execute of the repository is invoked
    svcOutcome,       \* how listAllApiResourceTypes of the registered service settles
    toolPc,           \* "idle" | "awaiting" | "returned" | "threw"
    toolOut,          \* the value execute resolved with, or the message it rejected with
    svcCalls,         \* invocations of listAllApiResourceTypes by execute
    lookups           \* the registry lookups of execute, in order

vars == <<cluster, cfg, svcState, ctorError, this, runs, pc, kc, allResources,
          namespacesToScan, groupVersion, resources, ri, ni, groups, gi,
          inflight, calls, returned, thrown,
          registry, impl, svcOutcome, toolPc, toolOut, svcCalls, lookups>>

toolVars == <<registry, impl, svcOutcome, toolPc, toolOut, svcCalls, lookups>>

NoFields == Params(undefined, undefined, undefined, undefined, undefined, undefined)
NoKubeConfig == [currentContext |-> undefined]

\* The service before its construction and before any traversal.
ServiceNew ==
    /\ cfg = NoFields
    /\ svcState = "new"
    /\ ctorError = undefined
    /\ this = NoFields
    /\ runs = 0
    /\ pc = "idle"
    /\ kc = NoKubeConfig
    /\ allResources = <<>>
    /\ namespacesToScan = <<>>
    /\ groupVersion = <<>>
    /\ resources = <<>>
    /\ ri = 0
    /\ ni = 0
    /\ groups = <<>>
    /\ gi = 0
    /\ inflight = {}
    /\ calls = <<>>
    /\ returned = <<>>
    /\ thrown = undefined

\* No execute has been invoked.
ToolIdle ==
    /\ registry = [methods |-> {}, named |-> undefined, typed |-> Resolved(undefined)]
    /\ impl = "js"
    /\ svcOutcome = Resolved(<<>>)
    /\ toolPc = "idle"
    /\ toolOut = undefined
    /\ svcCalls = 0
    /\ lookups = <<>>

Init ==
    /\ cluster \in Clusters
    /\ ServiceNew
    /\ ToolIdle

(***************************************************************************)
(* new KubernetesService(params)                                           *)
(***************************************************************************)
\* Constructor without the apiServerUrl check.
ConstructorNoUrlCheck(p) ==
    IF ~Truthy(p.clusterName)
      THEN [threw |-> "KubernetesService requires a clusterName.", fields |-> NoFields]
    ELSE [threw |-> undefined,
          fields |-> [clusterName |-> p.clusterName,
                      apiServerUrl |-> p.apiServerUrl,
                      namespace |-> OrElse(p.namespace, "default"),
                      token |-> p.token,
                      clientCertificate |-> p.clientCertificate,
                      clientKey |-> p.clientKey,
                      caCertificate |-> p.caCertificate]]

\* Constructor that stores the namespace as given.
ConstructorKeepingNamespace(p) ==
    IF ~Truthy(p.clusterName)
      THEN [threw |-> "KubernetesService requires a clusterName.", fields |-> NoFields]
    ELSE IF ~Truthy(p.apiServerUrl)
      THEN [threw |-> "KubernetesService requires an apiServerUrl.", fields |-> NoFields]
    ELSE [threw |-> undefined,
          fields |-> [clusterName |-> p.clusterName,
                      apiServerUrl |-> p.apiServerUrl,
                      namespace |-> p.namespace,
                      token |-> p.token,
                      clientCertificate |-> p.clientCertificate,
                      clientKey |-> p.clientKey,
                      caCertificate |-> p.caCertificate]]

\* The constructor: the message it throws (undefined when it returns) and
\* the fields it has assigned.
Constructor(p) ==
    IF ~Truthy(p.clusterName)
      THEN [threw |-> "KubernetesService requires a clusterName.", fields |-> NoFields]
    ELSE IF ~Truthy(p.apiServerUrl)
      THEN [threw |-> "KubernetesService requires an apiServerUrl.", fields |-> NoFields]
    ELSE [threw |-> undefined,
          fields |-> [clusterName |-> p.clusterName,
                      apiServerUrl |-> p.apiServerUrl,
                      namespace |-> OrElse(p.namespace, "default"),
                      token |-> p.token,
                      clientCertificate |-> p.clientCertificate,
                      clientKey |-> p.clientKey,
                      caCertificate |-> p.caCertificate]]

Construct ==
    /\ svcState = "new"
    /\ \E p \in Configs :
         LET r == Constructor(p) IN
         /\ cfg' = p
         /\ svcState' = IF r.threw = undefined THEN "ok" ELSE "failed"
         /\ ctorError' = r.threw
         /\ this' = r.fields
    /\ UNCHANGED <<cluster, runs, pc, kc, allResources, namespacesToScan, groupVersion,
                   resources, ri, ni, groups, gi, inflight, calls, returned, thrown>>
    /\ UNCHANGED toolVars

getNamespace == this.namespace

(***************************************************************************)
(* listAllApiResourceTypes: the client context                             *)
(***************************************************************************)
ClusterConfig(t) ==
    IF Truthy(t.caCertificate)
      THEN [name |-> t.clusterName, server |-> t.apiServerUrl, caData |-> t.caCertificate]
      ELSE [name |-> t.clusterName, server |-> t.apiServerUrl]

\* A user entry that prefers the certificate pair to the token.
UserConfigCertFirst(t) ==
    IF Truthy(t.clientCertificate) /\ Truthy(t.clientKey)
      THEN [name |-> "service-user", clientCertificateData |-> t.clientCertificate,
            clientKeyData |-> t.clientKey]
    ELSE IF Truthy(t.token)
      THEN [name |-> "service-user", token |-> t.token]
    ELSE [name |-> "service-user"]

UserConfig(t) ==
    IF Truthy(t.token)
      THEN [name |-> "service-user", token |-> t.token]
    ELSE IF Truthy(t.clientCertificate) /\ Truthy(t.clientKey)
      THEN [name |-> "service-user", clientCertificateData |-> t.clientCertificate,
            clientKeyData |-> t.clientKey]
    ELSE [name |-> "service-user"]

KubeConfigOptions(t) ==
    [clusters |-> <<ClusterConfig(t)>>,
     users |-> <<UserConfig(t)>>,
     contexts |-> << [name |-> t.clusterName \o "-context",
                      cluster |-> t.clusterName,
                      user |-> UserConfig(t).name,
                      namespace |-> OrElse(t.namespace, "default")] >>,
     currentContext |-> t.clusterName \o "-context"]

(***************************************************************************)
(* listAllApiResourceTypes: the traversal.  A frame is the record of the   *)
(* locals of one invocation; each operator below is a stretch of code      *)
(* between two awaits, taking the frame at its start to the frame at its   *)
(* end.                                                                    *)
(***************************************************************************)
Frame ==
    [pc |-> pc, allResources |-> allResources, namespacesToScan |-> namespacesToScan,
     groupVersion |-> groupVersion, resources |-> resources, ri |-> ri, ni |-> ni,
     groups |-> groups, gi |-> gi, inflight |-> inflight, calls |-> calls,
     returned |-> returned, thrown |-> thrown]

\* An error no enclosing try block catches: the invocation's promise rejects.
Throw(f, msg) == [f EXCEPT !.pc = "rejected", !.thrown = msg]

\* await <call>: the call goes out and the invocation is suspended on it.
Await(f, call) ==
    IF f.thrown # undefined THEN f
    ELSE [f EXCEPT !.pc = call.op, !.inflight = f.inflight \cup {call},
                   !.calls = Append(f.calls, call)]

Push(f, rec) == [f EXCEPT !.allResources = Append(f.allResources, rec)]

\* A return that first waits for something that never settles.
ReturnAwaitingForever(f) ==
    IF f.thrown # undefined THEN f
    ELSE [f EXCEPT !.pc = "pending"]

\* return allResources
Return(f) ==
    IF f.thrown # undefined THEN f
    ELSE [f EXCEPT !.pc = "done", !.returned = f.allResources]

\* A pass that starts the group-list call without awaiting it.
EnterPassPrefetching(f, gv) ==
    LET g == Await([f EXCEPT !.groupVersion = gv, !.resources = <<>>, !.ri = 0, !.ni = 0],
                   [op |-> "getAPIVersions"])
    IN  Await(g, [op |-> "getAPIResources"])

\* processApiGroupVersion(gv, ...) up to its discovery call
EnterPass(f, gv) ==
    Await([f EXCEPT !.groupVersion = gv, !.resources = <<>>, !.ri = 0, !.ni = 0],
          [op |-> "getAPIResources"])

HasPreferred(g) ==
    /\ "preferredVersion" \in DOMAIN g
    /\ "groupVersion" \in DOMAIN g.preferredVersion
    /\ g.preferredVersion.groupVersion # <<>>

\* A loop that ends at the first group without a preferred version.
GroupLoopStopping(f, j) ==
    IF j > Len(f.groups) THEN Return([f EXCEPT !.gi = j])
    ELSE IF HasPreferred(f.groups[j])
      THEN EnterPass([f EXCEPT !.gi = j], f.groups[j].preferredVersion.groupVersion)
    ELSE Return([f EXCEPT !.gi = j])

\* for (const group of apiGroups.groups), from the j-th group on
RECURSIVE GroupLoop(_, _)
GroupLoop(f, j) ==
    IF j > Len(f.groups) THEN Return([f EXCEPT !.gi = j])
    ELSE IF HasPreferred(f.groups[j])
      THEN EnterPass([f EXCEPT !.gi = j], f.groups[j].preferredVersion.groupVersion)
    ELSE GroupLoop(f, j + 1)

\* processApiGroupVersion has returned: the core pass is followed by the
\* group-list call, a group's pass by the next group of the loop.
EndPass(f) ==
    IF f.gi = 0 THEN Await(f, [op |-> "getAPIVersions"])
    ELSE GroupLoop(f, f.gi + 1)

\* No verb filter.
ListableAlways(r) == TRUE

\* !(!resource.verbs || !resource.verbs.includes("list"))
Listable(r) == "verbs" \in DOMAIN r /\ Includes(r.verbs, "list")

Group(r, gv) == OrElse(OrElse(Get(r, "group"), At(Split(gv, "/"), 0)), "")
Version(r, gv) == OrElse(Get(r, "version"), At(Split(gv, "/"), 1))

\* A listing call that names no namespace.
NamespacedCallUnscoped(r, gv, ns) ==
    [op |-> "listNamespacedCustomObject", group |-> Group(r, gv),
     version |-> Version(r, gv), namespace |-> "", plural |-> r.name]

NamespacedCall(r, gv, ns) ==
    [op |-> "listNamespacedCustomObject", group |-> Group(r, gv),
     version |-> Version(r, gv), namespace |-> ns, plural |-> r.name]

ClusterCall(r, gv) ==
    [op |-> "listClusterCustomObject", group |-> Group(r, gv),
     version |-> Version(r, gv), plural |-> r.name]

\* for (const resource of apiResourceList.resources), resumed at resource i
\* and, for a namespaced resource, at namespace n of the scan set
RECURSIVE ResourceLoop(_, _, _)
ResourceLoop(f, i, n) ==
    IF i > Len(f.resources) THEN EndPass([f EXCEPT !.ri = i, !.ni = 0])
    ELSE IF ~Listable(f.resources[i]) THEN ResourceLoop(f, i + 1, 1)
    ELSE IF f.resources[i].namespaced
      THEN IF n <= Len(f.namespacesToScan)
             THEN Await([f EXCEPT !.ri = i, !.ni = n],
                        NamespacedCall(f.resources[i], f.groupVersion, f.namespacesToScan[n]))
             ELSE ResourceLoop(f, i + 1, 1)
    ELSE Await([f EXCEPT !.ri = i, !.ni = 0], ClusterCall(f.resources[i], f.groupVersion))

\* The literal "v1" of processApiGroupVersion("v1", "core")
CoreV1 == <<"v", "1">>

\* if (namespacesToScan.length === 0) ...; then the core pass begins
AfterNamespaces(f) ==
    EnterPass(IF Len(f.namespacesToScan) = 0
                THEN [f EXCEPT !.namespacesToScan = <<"default">>]
                ELSE f,
              CoreV1)

\* An entry that discovers the namespaces whatever the config says.
EntryAlwaysDiscovering(t) ==
    Await([pc |-> "entry", allResources |-> <<>>, namespacesToScan |-> <<>>,
           groupVersion |-> <<>>, resources |-> <<>>, ri |-> 0, ni |-> 0,
           groups |-> <<>>, gi |-> 0, inflight |-> inflight, calls |-> <<>>,
           returned |-> returned, thrown |-> undefined],
          [op |-> "listNamespace"])

\* An entry without the resolution of the namespaces: the core pass begins
\* with the scan set as declared.
EntryWithoutNamespaces(t) ==
    EnterPass([pc |-> "entry", allResources |-> <<>>, namespacesToScan |-> <<>>,
               groupVersion |-> <<>>, resources |-> <<>>, ri |-> 0, ni |-> 0,
               groups |-> <<>>, gi |-> 0, inflight |-> inflight, calls |-> <<>>,
               returned |-> returned, thrown |-> undefined],
              CoreV1)

\* An entry whose output sequence outlives the invocation.
EntryKeepingOutput(t) ==
    LET f0 == [pc |-> "entry", allResources |-> allResources, namespacesToScan |-> <<>>,
               groupVersion |-> <<>>, resources |-> <<>>, ri |-> 0, ni |-> 0,
               groups |-> <<>>, gi |-> 0, inflight |-> inflight, calls |-> <<>>,
               returned |-> returned, thrown |-> undefined]
    IN  IF Truthy(t.namespace)
          THEN AfterNamespaces([f0 EXCEPT !.namespacesToScan = <<t.namespace>>])
          ELSE Await(f0, [op |-> "listNamespace"])

\* The body of listAllApiResourceTypes from its entry to its first await.
Entry(t) ==
    LET f0 == [pc |-> "entry", allResources |-> <<>>, namespacesToScan |-> <<>>,
               groupVersion |-> <<>>, resources |-> <<>>, ri |-> 0, ni |-> 0,
               groups |-> <<>>, gi |-> 0, inflight |-> inflight, calls |-> <<>>,
               returned |-> returned, thrown |-> undefined]
    IN  IF Truthy(t.namespace)
          THEN AfterNamespaces([f0 EXCEPT !.namespacesToScan = <<t.namespace>>])
          ELSE Await(f0, [op |-> "listNamespace"])

\* nsList.items.map((ns) => (ns.metadata?.name ?? ""))
NamespaceNames(items) ==
    [i \in 1..Len(items) |-> Coalesce(MetadataOf(items[i], "name"), "")]

NamespaceError(msg) ==
    [error |-> "Namespace discovery failed (fallback to 'default'): " \o msg]

\* catch (nsError)
CatchNsError(f, msg) ==
    [Push(f, NamespaceError(msg)) EXCEPT !.namespacesToScan = <<"default">>]

\* await coreV1Api.listNamespace() has settled with outcome o
OnListNamespace(f, o) ==
    IF o.ok
      THEN IF "items" \in DOMAIN o.value
             THEN AfterNamespaces([f EXCEPT !.namespacesToScan = NamespaceNames(o.value.items)])
             ELSE AfterNamespaces([f EXCEPT !.namespacesToScan = <<"default">>])
      ELSE AfterNamespaces(CatchNsError(f, o.message))

DiscoveryError(gv, msg) ==
    [error |-> "Resource discovery failed for groupVersion " \o Str(gv) \o ": " \o msg]

\* A catch clause that records nothing.
CatchGroupErrorSilent(f, msg) == f

\* catch (groupError)
CatchGroupError(f, msg) == Push(f, DiscoveryError(f.groupVersion, msg))

\* await coreV1Api.getAPIResources() has settled with outcome o
OnGetAPIResources(f, o) ==
    IF o.ok
      THEN ResourceLoop([f EXCEPT !.resources = o.value.resources], 1, 1)
      ELSE EndPass(CatchGroupError(f, o.message))

\* result?.items of const {body: result} = <response>
ItemsOf(response) ==
    IF "body" \in DOMAIN response /\ "items" \in DOMAIN response.body
      THEN response.body.items
      ELSE <<>>

NamespacedInstance(r, gv, item) ==
    [group |-> Group(r, gv), version |-> Version(r, gv), kind |-> r.kind,
     namespace |-> MetadataOf(item, "namespace"), name |-> MetadataOf(item, "name")]

NamespacedError(r, gv, ns, msg) ==
    [group |-> Group(r, gv), version |-> Version(r, gv), kind |-> r.kind,
     namespace |-> ns, error |-> "Failed to list instances: " \o msg]

ClusterInstance(r, gv, item) ==
    [group |-> Group(r, gv), version |-> Version(r, gv), kind |-> r.kind,
     name |-> MetadataOf(item, "name")]

ClusterError(r, gv, msg) ==
    [group |-> Group(r, gv), version |-> Version(r, gv), kind |-> r.kind,
     error |-> "Failed to list instances: " \o msg]

\* Records put in front of the output.
PushAllFront(f, recs) == [f EXCEPT !.allResources = recs \o f.allResources]

PushAll(f, recs) == [f EXCEPT !.allResources = f.allResources \o recs]

\* catch (err) of the namespaced listing
CatchNamespacedErr(f, r, ns, msg) == Push(f, NamespacedError(r, f.groupVersion, ns, msg))

\* A catch that reports the failure twice.
CatchClusterErrTwice(f, r, msg) ==
    Push(Push(f, ClusterError(r, f.groupVersion, msg)), ClusterError(r, f.groupVersion, msg))

\* catch (err) of the cluster-scoped listing
CatchClusterErr(f, r, msg) == Push(f, ClusterError(r, f.groupVersion, msg))

\* Instance records that carry the namespace of the loop.
NamespacedListedLoopNs(f, o) ==
    LET r == f.resources[f.ri]
        ns == f.namespacesToScan[f.ni]
        items == IF o.ok THEN ItemsOf(o.value) ELSE <<>>
    IN  IF o.ok
          THEN PushAll(f, [i \in 1..Len(items) |->
                             [NamespacedInstance(r, f.groupVersion, items[i]) EXCEPT !.namespace = ns]])
          ELSE CatchNamespacedErr(f, r, ns, o.message)

\* The try/catch around listNamespacedCustomObject, once the call has settled.
NamespacedListed(f, o) ==
    LET r == f.resources[f.ri]
        ns == f.namespacesToScan[f.ni]
        items == IF o.ok THEN ItemsOf(o.value) ELSE <<>>
    IN  IF o.ok
          THEN PushAll(f, [i \in 1..Len(items) |-> NamespacedInstance(r, f.groupVersion, items[i])])
          ELSE CatchNamespacedErr(f, r, ns, o.message)

\* A rejected listing that is tried a second time.
OnListNamespacedRetrying(f, o) ==
    LET n == Len(f.calls)
    IN  IF ~o.ok /\ (n < 2 \/ f.calls[n - 1] # f.calls[n])
          THEN Await(f, f.calls[n])
          ELSE ResourceLoop(NamespacedListed(f, o), f.ri, f.ni + 1)

\* A rejected listing that leaves the pass.
OnListNamespacedAborting(f, o) ==
    IF o.ok THEN ResourceLoop(NamespacedListed(f, o), f.ri, f.ni + 1)
    ELSE EndPass(NamespacedListed(f, o))

\* ... and the for (const ns of namespacesToScan) loop goes on
OnListNamespaced(f, o) == ResourceLoop(NamespacedListed(f, o), f.ri, f.ni + 1)

\* The try/catch around listClusterCustomObject, once the call has settled.
ClusterListed(f, o) ==
    LET r == f.resources[f.ri]
        items == IF o.ok THEN ItemsOf(o.value) ELSE <<>>
    IN  IF o.ok
          THEN PushAll(f, [i \in 1..Len(items) |-> ClusterInstance(r, f.groupVersion, items[i])])
          ELSE CatchClusterErr(f, r, o.message)

\* A rejected listing that leaves the pass.
OnListClusterAborting(f, o) ==
    IF o.ok THEN ResourceLoop(ClusterListed(f, o), f.ri + 1, 1)
    ELSE EndPass(ClusterListed(f, o))

\* ... and the for (const resource of ...) loop goes on
OnListCluster(f, o) == ResourceLoop(ClusterListed(f, o), f.ri + 1, 1)

GroupListError(msg) == [error |-> "Failed to get API group list: " \o msg]

\* The group-list call outside any try block.
RethrowApiGroupsError(f, msg) == Throw(f, msg)

\* A catch clause that starts the output over.
CatchApiGroupsErrorDropping(f, msg) == [f EXCEPT !.allResources = <<GroupListError(msg)>>]

\* A catch clause that puts its record in front of the output.
CatchApiGroupsErrorFront(f, msg) ==
    [f EXCEPT !.allResources = <<GroupListError(msg)>> \o f.allResources]

\* catch (apiGroupsError)
CatchApiGroupsError(f, msg) == Push(f, GroupListError(msg))

\* await apisApi.getAPIVersions() has settled with outcome o
OnGetAPIVersions(f, o) ==
    IF ~o.ok
      THEN Return(CatchApiGroupsError(f, o.message))
    ELSE IF "groups" \in DOMAIN o.value
      THEN GroupLoop([f EXCEPT !.groups = o.value.groups], 1)
    ELSE Return(f)

(***************************************************************************)
(* The cluster's answer to a call.                                         *)
(***************************************************************************)
RECURSIVE CountOp(_, _)
CountOp(cs, op) ==
    IF cs = <<>> THEN 0
    ELSE (IF Head(cs).op = op THEN 1 ELSE 0) + CountOp(Tail(cs), op)

ListAnswer(cl, plural, ns) ==
    IF <<plural, ns>> \in cl.listFail
      THEN Rejected("forbidden: " \o plural)
      ELSE Resolved([body |-> Objects(plural, ns)])

\* cs: the calls issued so far, the answered one last
Answer(cl, call, cs) ==
    CASE call.op = "listNamespace" -> cl.namespaces
      [] call.op = "getAPIVersions" -> cl.apiGroups
      [] call.op = "getAPIResources" ->
           IF CountOp(cs, "getAPIResources") \in cl.discFail
             THEN Rejected("discovery unavailable")
             ELSE Resolved(cl.apiResources)
      [] call.op = "listNamespacedCustomObject" -> ListAnswer(cl, call.plural, call.namespace)
      [] call.op = "listClusterCustomObject" -> ListAnswer(cl, call.plural, undefined)

\* The awaited call has settled: the code that runs until the next await.
Resumed(f, call, o) ==
    CASE call.op = "listNamespace" -> OnListNamespace(f, o)
      [] call.op = "getAPIVersions" -> OnGetAPIVersions(f, o)
      [] call.op = "getAPIResources" -> OnGetAPIResources(f, o)
      [] call.op = "listNamespacedCustomObject" -> OnListNamespaced(f, o)
      [] call.op = "listClusterCustomObject" -> OnListCluster(f, o)

Commit(f) ==
    /\ pc' = f.pc
    /\ allResources' = f.allResources
    /\ namespacesToScan' = f.namespacesToScan
    /\ groupVersion' = f.groupVersion
    /\ resources' = f.resources
    /\ ri' = f.ri
    /\ ni' = f.ni
    /\ groups' = f.groups
    /\ gi' = f.gi
    /\ inflight' = f.inflight
    /\ calls' = f.calls
    /\ returned' = f.returned
    /\ thrown' = f.thrown

\* listAllApiResourceTypes(agent) is called on the constructed service.
Start ==
    /\ svcState = "ok"
    /\ pc \in {"idle", "done", "rejected"}
    /\ runs < MaxRuns
    /\ runs' = runs + 1
    /\ kc' = KubeConfigOptions(this)
    /\ Commit(Entry(this))
    /\ UNCHANGED <<cluster, cfg, svcState, ctorError, this>>
    /\ UNCHANGED toolVars

\* The call the traversal awaits settles and the traversal runs on to its
\* next await, or to its return.
Resume ==
    /\ pc \notin {"idle", "done", "rejected"}
    /\ \E call \in inflight :
         /\ call.op = pc
         /\ Commit(Resumed([Frame EXCEPT !.inflight = inflight \ {call}],
                           call, Answer(cluster, call, calls)))
    /\ UNCHANGED <<cluster, cfg, svcState, ctorError, this, runs, kc>>
    /\ UNCHANGED toolVars

Next == Construct \/ Start \/ Resume

Spec == Init /\ [][Next]_vars

\* The guard of Resume: the traversal is suspended on a call in flight.
ResumeEnabled ==
    /\ pc \notin {"idle", "done", "rejected"}
    /\ \E call \in inflight : call.op = pc

\* Every network call eventually completes, with success or with failure:
\* weak fairness of Resume, with ENABLED <<Resume>>_vars written out as the
\* guard of Resume (past its guard Resume is total and appends to calls or
\* empties inflight).
FairSpec == Spec /\ ([]<>(~ResumeEnabled) \/ []<><<Resume>>_vars)

(***************************************************************************)
(* The tool listKubernetesApiResources: the execute functions of the       *)
(* repository, invoked on a registry whose service settles as svcOutcome.  *)
(* An execute is an async function with one await, the service call.       *)
(***************************************************************************)
ToolName == "kubernetes/listKubernetesApiResources"

Methods == {"get", "requireFirstServiceByType", "requireServiceByType"}

\* What the registry answers: get("KubernetesService") returns named; a lookup
\* by type returns typed.value or throws typed.message.
Registries ==
    [ methods : SUBSET Methods,
      named : {undefined, "service"},
      typed : {Resolved("service"), Resolved(undefined), Rejected("no KubernetesService registered")} ]

Impls == {"js", "registry", "agent"}

\* Lists listAllApiResourceTypes may resolve with, and errors it may reject with.
ServiceOutcomes ==
    { Resolved(<<>>),
      Resolved(<< [kind |-> "Pod", name |-> "test-pod", namespace |-> "default"] >>),
      Resolved(<< NamespacedInstance(Pod, CoreV1, [metadata |-> [namespace |-> "default", name |-> "nginx"]]),
                  ClusterError(Node, CoreV1, "forbidden: nodes") >>),
      Resolved(<< NamespacedInstance(Deployment, AppsV1, [kind |-> "Deployment"]),
                  GroupListError("apis unreachable") >>),
      Rejected("Kube API error"),
      Rejected("") }

\* JSON.stringify of one record: a property whose value is undefined is left out.
StringifyRecord(rec) == [k \in {f \in DOMAIN rec : rec[f] # undefined} |-> rec[k]]

\* JSON.stringify(resources): the text of the array, kept as what it parses back to.
Stringify(list) == [json |-> [i \in 1..Len(list) |-> StringifyRecord(list[i])]]

ToolFrame == [pc |-> toolPc, out |-> toolOut, svcCalls |-> svcCalls, lookups |-> lookups]

ToolReturn(t, v) == [t EXCEPT !.pc = "returned", !.out = v]
ToolThrow(t, msg) == [t EXCEPT !.pc = "threw", !.out = msg]
Lookup(t, how) == [t EXCEPT !.lookups = Append(t.lookups, how)]

\* await kubernetesService.listAllApiResourceTypes(registry)
CallService(t) == [t EXCEPT !.pc = "awaiting", !.svcCalls = t.svcCalls + 1]

NotAFunction(m) == m \o " is not a function"

\* execute of src/index.js up to its await
ExecuteJs(reg, t) ==
    IF "get" \notin reg.methods THEN ToolThrow(t, NotAFunction("registry.get"))
    ELSE IF reg.named = undefined
      THEN ToolReturn(Lookup(t, "KubernetesService"),
                      [error |-> "KubernetesService not found in registry."])
    ELSE CallService(Lookup(t, "KubernetesService"))

\* ... and from the settling of the service call on
SettleJs(t, o) ==
    IF o.ok THEN ToolReturn(t, [resources |-> o.value])
    ELSE ToolReturn(t, [error |-> "Failed to list Kubernetes resources: " \o o.message])

\* catch (error: any) of the registry execute
RegistryCatch(t, msg) ==
    ToolThrow(t, "[" \o ToolName \o "] Failed to list Kubernetes resources: " \o msg)

\* execute(registry) of tools/listKubernetesApiResources.ts up to its await
ExecuteRegistry(reg, t) ==
    LET t1 == IF "get" \in reg.methods THEN Lookup(t, "KubernetesService") ELSE t
        byName == IF "get" \in reg.methods THEN reg.named ELSE undefined
        byType == byName = undefined /\ "requireFirstServiceByType" \in reg.methods
        t2 == IF byType THEN Lookup(t1, "byType") ELSE t1
    IN  IF byType /\ ~reg.typed.ok THEN RegistryCatch(t2, reg.typed.message)
        ELSE IF (IF byType THEN reg.typed.value ELSE byName) = undefined
          THEN RegistryCatch(t2, "[" \o ToolName \o "] KubernetesService not available in registry")
        ELSE CallService(t2)

SettleRegistry(t, o) ==
    IF o.ok THEN ToolReturn(t, [output |-> Stringify(o.value)])
    ELSE RegistryCatch(t, o.message)

\* execute(agent) of tools/listKubernetesApiResources.ts up to its await
ExecuteAgent(reg, t) ==
    IF "requireServiceByType" \notin reg.methods
      THEN ToolThrow(t, NotAFunction("agent.requireServiceByType"))
    ELSE IF ~reg.typed.ok THEN ToolThrow(Lookup(t, "byType"), reg.typed.message)
    ELSE IF reg.typed.value = undefined
      THEN ToolThrow(Lookup(t, "byType"),
                     "Cannot read properties of undefined (reading 'listAllApiResourceTypes')")
    ELSE CallService(Lookup(t, "byType"))

SettleAgent(t, o) ==
    IF o.ok THEN ToolReturn(t, [output |-> Stringify(o.value)])
    ELSE ToolThrow(t, o.message)

ToolCommit(t) ==
    /\ toolPc' = t.pc
    /\ toolOut' = t.out
    /\ svcCalls' = t.svcCalls
    /\ lookups' = t.lookups

serviceVars == <<cluster, cfg, svcState, ctorError, this, runs, pc, kc, allResources,
                 namespacesToScan, groupVersion, resources, ri, ni, groups, gi,
                 inflight, calls, returned, thrown>>

\* execute(args, registry) is called.
Execute ==
    /\ toolPc = "idle"
    /\ ToolCommit(CASE impl = "js" -> ExecuteJs(registry, ToolFrame)
                    [] impl = "registry" -> ExecuteRegistry(registry, ToolFrame)
                    [] impl = "agent" -> ExecuteAgent(registry, ToolFrame))
    /\ UNCHANGED <<registry, impl, svcOutcome>>
    /\ UNCHANGED serviceVars

\* The service call settles and execute runs to its end.
ServiceSettles ==
    /\ toolPc = "awaiting"
    /\ ToolCommit(CASE impl = "js" -> SettleJs(ToolFrame, svcOutcome)
                    [] impl = "registry" -> SettleRegistry(ToolFrame, svcOutcome)
                    [] impl = "agent" -> SettleAgent(ToolFrame, svcOutcome))
    /\ UNCHANGED <<registry, impl, svcOutcome>>
    /\ UNCHANGED serviceVars

ToolInit ==
    /\ cluster = [namespaces |-> Resolved([items |-> <<>>]), apiGroups |-> Resolved([kind |-> "APIGroupList"]),
                  apiResources |-> [groupVersion |-> "v1", resources |-> <<Node, PodLog, Pod>>],
                  discFail |-> {}, listFail |-> {}]
    /\ ServiceNew
    /\ registry \in Registries
    /\ impl \in Impls
    /\ svcOutcome \in ServiceOutcomes
    /\ toolPc = "idle"
    /\ toolOut = undefined
    /\ svcCalls = 0
    /\ lookups = <<>>

ToolNext == Execute \/ ServiceSettles

ToolSpec == ToolInit /\ [][ToolNext]_vars

(***************************************************************************)
(* Vocabulary of the properties.                                           *)
(***************************************************************************)
Count(seq, x) == Cardinality({i \in 1..Len(seq) : seq[i] = x})

\* The i-th call of the traversal was rejected by the cluster.
Failed(i) == ~Answer(cluster, calls[i], SubSeq(calls, 1, i)).ok

\* The i-th call of the traversal has settled and its handler has run.
Settled(i) == i < Len(calls) \/ inflight = {}

CallsOf(op) == {i \in 1..Len(calls) : calls[i].op = op}

Offered == cluster.apiResources.resources

KindOf(plural) == (CHOOSE i \in 1..Len(Offered) : Offered[i].name = plural)

IsError(rec) == "error" \in DOMAIN rec

\* The verb set of resource r is present and holds "list".
AdvertisesList(r) == "verbs" \in DOMAIN r /\ \E v \in 1..Len(r.verbs) : r.verbs[v] = "list"

ConfiguredNamespace == Truthy(cfg.namespace)

(***************************************************************************)
(* Properties of the constructor                                           *)
(***************************************************************************)
\* C1: construction succeeds exactly for the configs whose clusterName and
\* apiServerUrl are both non-empty; for every other config it fails with an
\* error, and no network call has been issued by then.
C1_ConstructorValidates ==
    svcState # "new" =>
        /\ (svcState = "ok") <=> (Truthy(cfg.clusterName) /\ Truthy(cfg.apiServerUrl))
        /\ svcState = "failed" =>
             (ctorError # undefined /\ calls = <<>> /\ inflight = {} /\ runs = 0)
        /\ (svcState = "ok" /\ runs = 0) => (calls = <<>> /\ inflight = {})

C1_Witness ==
    /\ svcState = "failed"
    /\ cfg.clusterName = "c1"
    /\ cfg.apiServerUrl = ""

(***************************************************************************)
(* Properties of the traversal                                             *)
(***************************************************************************)
\* The error record a rejected call leaves in the output.
IsErrorFor(rec, call, msg) ==
    CASE call.op = "listNamespace" -> rec = NamespaceError(msg)
      [] call.op = "getAPIVersions" -> rec = GroupListError(msg)
      [] call.op = "getAPIResources" ->
           \E gv \in {CoreV1, AppsV1, BatchV1} : rec = DiscoveryError(gv, msg)
      [] call.op = "listNamespacedCustomObject" ->
           rec = [group |-> call.group, version |-> call.version,
                  kind |-> Offered[KindOf(call.plural)].kind,
                  namespace |-> call.namespace,
                  error |-> "Failed to list instances: " \o msg]
      [] call.op = "listClusterCustomObject" ->
           rec = [group |-> call.group, version |-> call.version,
                  kind |-> Offered[KindOf(call.plural)].kind,
                  error |-> "Failed to list instances: " \o msg]

MessageOf(i) == Answer(cluster, calls[i], SubSeq(calls, 1, i)).message

\* C2: on a constructed service the traversal never rejects: whatever calls
\* the cluster rejects, the traversal is either suspended on a call in
\* flight or has returned its record sequence, and every rejected call has
\* left an error record in that sequence.
C2_NeverRejects ==
    /\ pc # "rejected"
    /\ thrown = undefined
    /\ pc \notin {"idle", "done"} => \E c \in inflight : c.op = pc
    /\ pc = "done" =>
         /\ returned = allResources
         /\ \A i \in 1..Len(calls) :
              Failed(i) =>
                \E k \in 1..Len(returned) : IsErrorFor(returned[k], calls[i], MessageOf(i))

C2_Witness ==
    /\ pc = "done"
    /\ ~cluster.apiGroups.ok
    /\ \E i \in CallsOf("listNamespacedCustomObject") : Failed(i)
    /\ \E i \in CallsOf("listClusterCustomObject") : Failed(i)

NamespacedListable == {i \in 1..Len(Offered) : AdvertisesList(Offered[i]) /\ Offered[i].namespaced}
ClusterListable == {i \in 1..Len(Offered) : AdvertisesList(Offered[i]) /\ ~Offered[i].namespaced}
Discovered == {i \in CallsOf("getAPIResources") : Settled(i) /\ ~Failed(i)}

\* C3: a rejected listing of a namespaced kind in one namespace leaves
\* exactly one error record with that kind's group, version and kind and
\* the namespace of the call, and aborts nothing: by the end every
\* discovered pass has listed every listable namespaced kind in every
\* namespace of the scan set, and every listable cluster-scoped kind.
C3_NamespacedFailureIsolated ==
    /\ \A i \in CallsOf("listNamespacedCustomObject") :
         (Settled(i) /\ Failed(i)) =>
           Cardinality({k \in 1..Len(allResources) :
                          /\ "namespace" \in DOMAIN allResources[k]
                          /\ IsErrorFor(allResources[k], calls[i], MessageOf(i))})
             = Cardinality({j \in CallsOf("listNamespacedCustomObject") :
                              Settled(j) /\ Failed(j) /\ calls[j] = calls[i]})
    /\ pc = "done" =>
         /\ Cardinality(CallsOf("listNamespacedCustomObject"))
              = Cardinality(Discovered) * Cardinality(NamespacedListable) * Len(namespacesToScan)
         /\ Cardinality(CallsOf("listClusterCustomObject"))
              = Cardinality(Discovered) * Cardinality(ClusterListable)

C3_Witness ==
    /\ pc = "done"
    /\ \E i \in CallsOf("listNamespacedCustomObject") :
         /\ Failed(i)
         /\ \E j \in CallsOf("listNamespacedCustomObject") : j > i
         /\ \E j \in CallsOf("listClusterCustomObject") : j > i

\* C4: the first pass is the core pass "v1" and it comes before the
\* group-list call, which every traversal issues exactly once; when that
\* call is rejected the traversal returns the records gathered so far
\* followed by the one error record of the group-list failure.
C4_CorePassFirst ==
    /\ [](/\ (pc = "getAPIResources" /\ Cardinality(CallsOf("getAPIResources")) = 1) =>
               (groupVersion = CoreV1 /\ CallsOf("getAPIVersions") = {})
          /\ \A i \in CallsOf("getAPIVersions") : \E j \in CallsOf("getAPIResources") : j < i
          /\ pc = "done" => Cardinality(CallsOf("getAPIVersions")) = 1)
    /\ [][(pc = "getAPIVersions" /\ ~cluster.apiGroups.ok) =>
            /\ pc' = "done"
            /\ returned' = Append(allResources, GroupListError(cluster.apiGroups.message))
            /\ Count(returned', GroupListError(cluster.apiGroups.message)) = 1]_vars

C4_Witness ==
    /\ pc = "done"
    /\ ~cluster.apiGroups.ok
    /\ Len(returned) >= 4
    /\ returned[Len(returned)] = GroupListError(cluster.apiGroups.message)
    /\ \E k \in 1..Len(returned) : ~IsError(returned[k])

\* C5: when the config names a namespace, the scan set is that one
\* namespace, every namespaced listing goes to it, and the namespace-list
\* call is never issued.
C5_ConfiguredNamespaceOnly ==
    (ConfiguredNamespace /\ runs >= 1) =>
        /\ namespacesToScan = <<cfg.namespace>>
        /\ CallsOf("listNamespace") = {}
        /\ \A i \in CallsOf("listNamespacedCustomObject") : calls[i].namespace = cfg.namespace

C5_Witness ==
    /\ pc = "done"
    /\ cfg.namespace = "kube-system"
    /\ CallsOf("listNamespacedCustomObject") # {}

\* C6: with no namespace in the config, once the namespace list has been
\* answered with a non-empty list the scan set is the returned names in
\* server order (<<"ns-a", "ns-b">> for that answer) and the namespaced
\* listings go to those namespaces.
C6_DiscoveredNamespacesScanned ==
    (/\ svcState = "ok"
     /\ cfg.namespace = undefined
     /\ cluster.namespaces.ok
     /\ cluster.namespaces.value.items # <<>>
     /\ pc = "done") =>
        /\ namespacesToScan = NamespaceNames(cluster.namespaces.value.items)
        /\ \A i \in CallsOf("listNamespacedCustomObject") :
             \E n \in 1..Len(namespacesToScan) : calls[i].namespace = namespacesToScan[n]

\* C7: with no namespace in the config and a rejected namespace-list call,
\* the output holds exactly one namespace-discovery error record, which
\* carries the error message only, and every namespaced listing uses the
\* scan set <<"default">>.
C7_NamespaceFailureRecorded ==
    (/\ svcState = "ok"
     /\ cfg.namespace = undefined
     /\ ~cluster.namespaces.ok
     /\ pc = "done") =>
        /\ Count(returned, NamespaceError(cluster.namespaces.message)) = 1
        /\ namespacesToScan = <<"default">>
        /\ \A i \in CallsOf("listNamespacedCustomObject") : calls[i].namespace = "default"

\* C8: core kind Pod (plural pods, no group or version advertised), scan set
\* <<"default", "kube-system">>, default holding the pod nginx and the
\* listing of kube-system rejected: the output holds exactly one instance
\* record {"", "v1", Pod, default, nginx}, directly followed by exactly one
\* error record {"", "v1", Pod, kube-system, error}.
C8_PodsScenario ==
    LET inst == [group |-> "", version |-> "v1", kind |-> "Pod",
                 namespace |-> "default", name |-> "nginx"]
        err == [group |-> "", version |-> "v1", kind |-> "Pod",
                namespace |-> "kube-system",
                error |-> "Failed to list instances: "
                            \o ListAnswer(cluster, "pods", "kube-system").message]
    IN  (/\ svcState = "ok"
         /\ cfg.namespace = undefined
         /\ cluster.namespaces
              = Resolved([items |-> <<NsItem("default"), NsItem("kube-system")>>])
         /\ 1 \notin cluster.discFail
         /\ <<"pods", "default">> \notin cluster.listFail
         /\ <<"pods", "kube-system">> \in cluster.listFail
         /\ pc = "done") =>
            /\ Count(returned, inst) = 1
            /\ Count(returned, err) = 1
            /\ \E k \in 1..(Len(returned) - 1) : returned[k] = inst /\ returned[k + 1] = err

IsListing(i) == calls[i].op \in {"listNamespacedCustomObject", "listClusterCustomObject"}

\* Records the i-th call contributes to the output.
Yield(i) ==
    LET a == Answer(cluster, calls[i], SubSeq(calls, 1, i))
    IN  IF ~a.ok THEN 1
        ELSE IF IsListing(i) THEN Len(ItemsOf(a.value))
        ELSE 0

RECURSIVE YieldUpTo(_)
YieldUpTo(n) == IF n = 0 THEN 0 ELSE YieldUpTo(n - 1) + Yield(n)

\* C9: a kind whose verbs are missing or lack "list" causes no listing call
\* and no record: no call names its plural, no record names a kind that only
\* such resources have, and the output holds exactly the records that the
\* issued calls account for.
C9_NonListableSkipped ==
    /\ \A i \in 1..Len(calls) :
         IsListing(i) => \A r \in 1..Len(Offered) :
                           Offered[r].name = calls[i].plural => AdvertisesList(Offered[r])
    /\ \A k \in 1..Len(allResources) :
         "kind" \in DOMAIN allResources[k] =>
            \E r \in 1..Len(Offered) :
               AdvertisesList(Offered[r]) /\ Offered[r].kind = allResources[k].kind
    /\ pc = "done" => Len(returned) = YieldUpTo(Len(calls))

C9_Witness ==
    /\ pc = "done"
    /\ Discovered # {}
    /\ \E r \in 1..Len(Offered) : "verbs" \notin DOMAIN Offered[r]
    /\ \E r \in 1..Len(Offered) : "verbs" \in DOMAIN Offered[r] /\ ~AdvertisesList(Offered[r])
    /\ Len(returned) > 0

\* C10: a cluster-scoped kind is listed with one cluster-wide call per pass
\* and never per namespace; a rejected call leaves exactly one error record
\* with group, version and kind and no namespace; and rejected or not, the
\* call that follows is the listing of the next listable kind of the pass,
\* or the pass is over.
C10_ClusterScopedOnce ==
    /\ \A i \in CallsOf("listNamespacedCustomObject") : Offered[KindOf(calls[i].plural)].namespaced
    /\ \A i \in CallsOf("listClusterCustomObject") :
         LET r == KindOf(calls[i].plural)
             later == {j \in (r + 1)..Len(Offered) : AdvertisesList(Offered[j])}
         IN  /\ ~Offered[r].namespaced
             /\ Cardinality({j \in CallsOf("listClusterCustomObject") : calls[j] = calls[i]})
                  <= Cardinality(CallsOf("getAPIResources"))
             /\ (Settled(i) /\ Failed(i)) =>
                  Cardinality({k \in 1..Len(allResources) :
                                 /\ "namespace" \notin DOMAIN allResources[k]
                                 /\ IsErrorFor(allResources[k], calls[i], MessageOf(i))})
                    = Cardinality({j \in CallsOf("listClusterCustomObject") :
                                     Settled(j) /\ Failed(j) /\ calls[j] = calls[i]})
             /\ (Settled(i) /\ later # {}) =>
                  /\ i < Len(calls)
                  /\ IsListing(i + 1)
                  /\ calls[i + 1].plural
                       = Offered[CHOOSE j \in later : \A m \in later : j <= m].name
             /\ (later = {} /\ i < Len(calls)) =>
                  calls[i + 1].op \in {"getAPIResources", "getAPIVersions"}

C10_Witness ==
    /\ pc = "done"
    /\ \E i \in CallsOf("listClusterCustomObject") :
         /\ Failed(i)
         /\ i < Len(calls)
         /\ calls[i + 1].op = "listNamespacedCustomObject"

(***************************************************************************)
(* The output a traversal of the cluster is to produce, pass by pass.      *)
(***************************************************************************)
RECURSIVE Concat(_)
Concat(ss) == IF ss = <<>> THEN <<>> ELSE Head(ss) \o Concat(Tail(ss))

IsPrefix(s, t) == Len(s) <= Len(t) /\ s = SubSeq(t, 1, Len(s))

\* The group entry g names the group/version the server prefers for it.
NamesGroupVersion(g) ==
    /\ "preferredVersion" \in DOMAIN g
    /\ "groupVersion" \in DOMAIN g.preferredVersion
    /\ g.preferredVersion.groupVersion # <<>>

\* The group/versions after the core one, in the order of the group list.
GroupVersionsReported ==
    IF cluster.apiGroups.ok /\ "groups" \in DOMAIN cluster.apiGroups.value
      THEN LET named == SelectSeq(cluster.apiGroups.value.groups, NamesGroupVersion)
           IN  [k \in 1..Len(named) |-> named[k].preferredVersion.groupVersion]
      ELSE <<>>

\* The answer to the discovery call of the k-th pass of a traversal.
DiscoveryOf(k) ==
    Answer(cluster, [op |-> "getAPIResources"], [j \in 1..k |-> [op |-> "getAPIResources"]])

\* Records of one listing of kind r: its items in the order returned, or its error.
ListingRecords(r, gv, ns) ==
    LET a == ListAnswer(cluster, r.name, ns)
        items == IF a.ok THEN ItemsOf(a.value) ELSE <<>>
    IN  IF ~a.ok
          THEN IF r.namespaced THEN <<NamespacedError(r, gv, ns, a.message)>>
                               ELSE <<ClusterError(r, gv, a.message)>>
          ELSE [i \in 1..Len(items) |->
                  IF r.namespaced THEN NamespacedInstance(r, gv, items[i])
                                  ELSE ClusterInstance(r, gv, items[i])]

\* Records of kind r: one listing per namespace in scan-set order, or one cluster-wide.
KindRecords(r, gv) ==
    IF ~AdvertisesList(r) THEN <<>>
    ELSE IF r.namespaced
      THEN Concat([n \in 1..Len(namespacesToScan) |-> ListingRecords(r, gv, namespacesToScan[n])])
    ELSE ListingRecords(r, gv, undefined)

\* Records of the k-th pass, which is the pass of group/version gv.
PassRecords(k, gv) ==
    LET a == DiscoveryOf(k)
    IN  IF ~a.ok THEN <<DiscoveryError(gv, a.message)>>
        ELSE Concat([i \in 1..Len(a.value.resources) |-> KindRecords(a.value.resources[i], gv)])

ProcessingOrder ==
    PassRecords(1, CoreV1)
      \o (IF ~cluster.apiGroups.ok THEN <<GroupListError(cluster.apiGroups.message)>>
          ELSE Concat([k \in 1..Len(GroupVersionsReported) |->
                         PassRecords(k + 1, GroupVersionsReported[k])]))

\* C11: the output is the concatenation of the records in processing order:
\* the core pass first, then the groups in the order of the group list, the
\* kinds of a pass in discovery order, the namespaces of a kind in scan-set
\* order and the items of a listing in the order returned; while the
\* traversal runs the output gathered so far is a prefix of it.
C11_ProcessingOrder ==
    runs >= 1 =>
        /\ IsPrefix(allResources, ProcessingOrder)
        /\ pc = "done" => returned = ProcessingOrder

C11_Witness ==
    /\ pc = "done"
    /\ Len(GroupVersionsReported) = 2
    /\ cluster.discFail = {}
    /\ <<"pods", "default">> \in cluster.listFail
    /\ cfg.namespace = undefined
    /\ Len(cluster.apiResources.resources) = 5
    /\ Len(returned) >= 12

\* The group/versions of a whole traversal, in the order of their passes.
PassOrder == <<CoreV1>> \o GroupVersionsReported

\* Passes begun so far; the last one is the pass in progress.
PassesBegun == Cardinality(CallsOf("getAPIResources"))

\* C12: when the discovery call of a pass is rejected, exactly one record is
\* appended, the error record naming the group/version of that pass; no
\* listing is issued for that pass; and the traversal goes on with the
\* group list (after the core pass) or with the next group/version of the
\* group list, so that by the end every reported group/version had its pass.
C12_DiscoveryFailureIsolated ==
    /\ [](/\ \A i \in CallsOf("getAPIResources") :
               (Settled(i) /\ Failed(i) /\ i < Len(calls)) => ~IsListing(i + 1)
          /\ pc = "getAPIResources" => groupVersion = PassOrder[PassesBegun]
          /\ (pc = "done" /\ cluster.apiGroups.ok) => PassesBegun = Len(PassOrder))
    /\ [][(pc = "getAPIResources" /\ ~DiscoveryOf(PassesBegun).ok) =>
            /\ allResources'
                 = Append(allResources,
                          [error |-> "Resource discovery failed for groupVersion "
                                       \o Str(PassOrder[PassesBegun]) \o ": "
                                       \o DiscoveryOf(PassesBegun).message])
            /\ IF PassesBegun = 1 THEN pc' = "getAPIVersions"
               ELSE IF PassesBegun < Len(PassOrder)
                 THEN pc' = "getAPIResources" /\ groupVersion' = PassOrder[PassesBegun + 1]
               ELSE pc' = "done"]_vars

C12_Witness ==
    /\ pc = "done"
    /\ cluster.discFail = {2}
    /\ PassesBegun = 3
    /\ \E k \in 1..Len(returned) : returned[k] = DiscoveryError(AppsV1, "discovery unavailable")
    /\ \E i \in CallsOf("listNamespacedCustomObject") : calls[i].group = "batch"

GroupsReported ==
    IF cluster.apiGroups.ok /\ "groups" \in DOMAIN cluster.apiGroups.value
      THEN cluster.apiGroups.value.groups
      ELSE <<>>

\* Names of the reported groups that name no preferred group/version.
SkippedNames ==
    {GroupsReported[j].name : j \in {m \in 1..Len(GroupsReported) : ~NamesGroupVersion(GroupsReported[m])}}

\* The pass of group/version gv has left its trace: a listing in its group,
\* or the error record of its discovery.
PassSeen(gv) ==
    \/ \E i \in 1..Len(calls) : IsListing(i) /\ calls[i].group = At(Split(gv, "/"), 0)
    \/ \E k \in 1..Len(allResources) :
         allResources[k] = DiscoveryError(gv, "discovery unavailable")

\* C13: a reported group without a preferred version, or whose preferred
\* version has no groupVersion string, gets no discovery call, no listing
\* and no record; the groups reported after it still get their pass.
C13_GroupWithoutPreferredSkipped ==
    /\ PassesBegun <= 1 + Cardinality({j \in 1..Len(GroupsReported) :
                                         NamesGroupVersion(GroupsReported[j])})
    /\ \A i \in 1..Len(calls) : IsListing(i) => calls[i].group \notin SkippedNames
    /\ \A k \in 1..Len(allResources) :
         /\ "group" \in DOMAIN allResources[k] => allResources[k].group \notin SkippedNames
         /\ DOMAIN allResources[k] = {"error"} =>
              \E i \in 1..Len(calls) : Failed(i) /\ ~IsListing(i)
    /\ Cardinality({k \in 1..Len(allResources) : DOMAIN allResources[k] = {"error"}})
         <= Cardinality({i \in 1..Len(calls) : Failed(i) /\ ~IsListing(i)})
    /\ pc = "done" =>
         \A j \in 1..Len(GroupsReported) :
            NamesGroupVersion(GroupsReported[j]) =>
               PassSeen(GroupsReported[j].preferredVersion.groupVersion)

C13_Witness ==
    /\ pc = "done"
    /\ SkippedNames = {"legacy", "odd"}
    /\ PassSeen(BatchV1)
    /\ PassesBegun = 3

(***************************************************************************)
(* Properties of the client context                                        *)
(***************************************************************************)
\* C14: the user entry of the context carries the token alone when the
\* config has a token, certificate and key or not; else the certificate and
\* the key when the config has both; else no credential; and its name is
\* "service-user" in every case.
C14_CredentialPrecedence ==
    runs >= 1 =>
        LET u == kc.users[1]
            hasToken == Truthy(cfg.token)
            hasPair == Truthy(cfg.clientCertificate) /\ Truthy(cfg.clientKey)
        IN  /\ Len(kc.users) = 1
            /\ u.name = "service-user"
            /\ kc.contexts[1].user = "service-user"
            /\ hasToken => (DOMAIN u = {"name", "token"} /\ u.token = cfg.token)
            /\ (~hasToken /\ hasPair) =>
                 /\ DOMAIN u = {"name", "clientCertificateData", "clientKeyData"}
                 /\ u.clientCertificateData = cfg.clientCertificate
                 /\ u.clientKeyData = cfg.clientKey
            /\ (~hasToken /\ ~hasPair) => DOMAIN u = {"name"}

C14_Witness ==
    /\ runs >= 1
    /\ cfg.token = "tok"
    /\ cfg.clientCertificate = "crt"
    /\ cfg.clientKey = "key"
    /\ kc.users[1] = [name |-> "service-user", token |-> "tok"]

(***************************************************************************)
(* Properties of successive traversals                                     *)
(***************************************************************************)
\* C15: a traversal that follows another one on the same service, the
\* cluster answering every call as before, starts from an empty output and
\* an empty call history and returns the sequence the one before returned.
C15_Idempotent ==
    [][/\ (runs >= 1 /\ runs' = runs + 1) =>
            (allResources' = <<>> /\ Len(calls') = 1 /\ returned' = returned)
       /\ (runs >= 2 /\ pc # "done" /\ pc' = "done") => returned' = returned]_vars

C15_Witness ==
    /\ runs = 2
    /\ pc = "done"
    /\ cluster.listFail # {}
    /\ \E k \in 1..Len(returned) : IsError(returned[k])
    /\ \E k \in 1..Len(returned) : ~IsError(returned[k])

(***************************************************************************)
(* Properties of the tool's execute                                        *)
(***************************************************************************)
ExecuteEnded == toolPc \in {"returned", "threw"}

\* The registry offers every lookup and each of them finds the service.
Registered ==
    /\ registry.methods = Methods
    /\ registry.named = "service"
    /\ registry.typed = Resolved("service")

\* The registry offers every lookup and holds no KubernetesService, by name or by type.
NothingRegistered ==
    /\ registry.methods = Methods
    /\ registry.named = undefined
    /\ registry.typed # Resolved("service")

\* C16: with the service registered under the name "KubernetesService" (and
\* under its type) and resolving with the list R, execute asks the registry for that name, calls
\* listAllApiResourceTypes once and returns {resources: R}.
C16_ExecuteReturnsResources ==
    (ExecuteEnded /\ Registered /\ svcOutcome.ok) =>
        /\ toolPc = "returned"
        /\ toolOut = [resources |-> svcOutcome.value]
        /\ svcCalls = 1
        /\ lookups = <<"KubernetesService">>

\* C17: with no KubernetesService in the registry, execute returns the value
\* {error: "KubernetesService not found in registry."}, does not throw, and
\* never calls listAllApiResourceTypes.
C17_ExecuteWithoutService ==
    NothingRegistered =>
        /\ svcCalls = 0
        /\ ExecuteEnded =>
             /\ toolPc = "returned"
             /\ toolOut = [error |-> "KubernetesService not found in registry."]

\* C18: when listAllApiResourceTypes rejects with message m, execute returns
\* the value {error: "Failed to list Kubernetes resources: m"}, does not
\* throw, and has called the service once.
C18_ExecuteServiceError ==
    (ExecuteEnded /\ Registered /\ ~svcOutcome.ok) =>
        /\ toolPc = "returned"
        /\ toolOut = [error |-> "Failed to list Kubernetes resources: " \o svcOutcome.message]
        /\ svcCalls = 1

(***************************************************************************)
(* Properties of the accessors                                             *)
(***************************************************************************)
\* C19: on a constructed service getNamespace() is the namespace given to
\* the constructor when one was given and "default" when it was omitted or
\* empty; it is never absent or empty; and no step changes it.
C19_GetNamespace ==
    /\ [](svcState = "ok" =>
            /\ getNamespace = (IF cfg.namespace \in {undefined, ""} THEN "default" ELSE cfg.namespace)
            /\ getNamespace \notin {undefined, ""})
    /\ [][svcState = "ok" => this'.namespace = this.namespace]_vars

C19_Witness ==
    /\ svcState = "ok"
    /\ cfg.namespace = ""
    /\ getNamespace = "default"
    /\ pc = "done"
    /\ runs = 2

(***************************************************************************)
(* Properties of resource discovery                                        *)
(***************************************************************************)
Job == [kind |-> "Job", name |-> "jobs", namespaced |-> TRUE, verbs |-> <<"list", "watch">>]

\* The kinds the server offers for group/version gv: the core ones are what
\* the core discovery endpoint answers; apps/v1 and batch/v1 have their own.
ServerOffers(gv) ==
    IF gv = CoreV1 THEN cluster.apiResources.resources
    ELSE IF gv = AppsV1 THEN <<Deployment>>
    ELSE <<Job>>

\* The pass the i-th call belongs to.
PassOf(i) == Cardinality({j \in CallsOf("getAPIResources") : j <= i})

ListablePlurals(rs) == {rs[r].name : r \in {m \in 1..Len(rs) : AdvertisesList(rs[m])}}

\* C20: every listing of a pass names a listable kind the server offers for
\* the group/version of that pass, and by the end of a traversal every pass
\* whose discovery succeeded has listed every listable kind offered for its
\* group/version, the core pass and the other passes alike.
C20_DiscoveryScoped ==
    /\ \A i \in 1..Len(calls) :
         IsListing(i) => calls[i].plural \in ListablePlurals(ServerOffers(PassOrder[PassOf(i)]))
    /\ pc = "done" =>
         \A d \in Discovered :
            \A p \in ListablePlurals(ServerOffers(PassOrder[PassOf(d)])) :
               \E i \in 1..Len(calls) : IsListing(i) /\ PassOf(i) = PassOf(d) /\ calls[i].plural = p

(***************************************************************************)
(* Properties of the records and of the calls                              *)
(***************************************************************************)
HasSlash(gv) == \E c \in 1..Len(gv) : gv[c] = "/"

\* The group and version a kind r is to have in the pass of gv: its own when
\* it advertises them, else the two parts of "g/v", the core string having
\* the group "" and itself as version.
EffectiveGroup(r, gv) ==
    IF "group" \in DOMAIN r /\ r.group \notin {undefined, ""} THEN r.group
    ELSE IF HasSlash(gv) THEN Str(Split(gv, "/")[1])
    ELSE ""

EffectiveVersion(r, gv) ==
    IF "version" \in DOMAIN r /\ r.version \notin {undefined, ""} THEN r.version
    ELSE IF HasSlash(gv) THEN Str(Split(gv, "/")[2])
    ELSE Str(gv)

\* C21: every listing call, and the records it leaves, carry the kind's own
\* advertised group and version when present, and else those of the
\* group/version string of the pass: "g/v" gives group g and version v, and
\* the core string "v1" gives group "" and version "v1".
C21_EffectiveGroupVersion ==
    /\ \A i \in 1..Len(calls) :
         IsListing(i) =>
            LET r == Offered[KindOf(calls[i].plural)]
                gv == PassOrder[PassOf(i)]
            IN  /\ calls[i].group = EffectiveGroup(r, gv)
                /\ calls[i].version = EffectiveVersion(r, gv)
    /\ \A k \in 1..Len(allResources) :
         "kind" \in DOMAIN allResources[k] =>
            \E r \in 1..Len(Offered), g \in 1..Len(PassOrder) :
               /\ Offered[r].kind = allResources[k].kind
               /\ allResources[k].group = EffectiveGroup(Offered[r], PassOrder[g])
               /\ allResources[k].version = EffectiveVersion(Offered[r], PassOrder[g])

\* The namespace list of the cluster has no items, or no item array.
NoNamespacesListed ==
    /\ cluster.namespaces.ok
    /\ ("items" \in DOMAIN cluster.namespaces.value => cluster.namespaces.value.items = <<>>)

\* An error record of the discovery of a pass or of the group list.
IsPassLevelError(rec) ==
    \/ \E g \in 1..Len(PassOrder) : rec = DiscoveryError(PassOrder[g], "discovery unavailable")
    \/ ~cluster.apiGroups.ok /\ rec = GroupListError(cluster.apiGroups.message)

\* C22: from the first discovery call of a traversal on, the scan set is not
\* empty; with no namespace in the config and a cluster whose namespace list
\* is empty it is <<"default">>, and no error record stands for that.
C22_ScanSetNeverEmpty ==
    CallsOf("getAPIResources") # {} =>
        /\ Len(namespacesToScan) >= 1
        /\ (~ConfiguredNamespace /\ NoNamespacesListed) =>
             /\ namespacesToScan = <<"default">>
             /\ \A k \in 1..Len(allResources) :
                  DOMAIN allResources[k] = {"error"} => IsPassLevelError(allResources[k])

C22_Witness ==
    /\ pc = "done"
    /\ cfg.namespace = undefined
    /\ NoNamespacesListed
    /\ namespacesToScan = <<"default">>
    /\ \E i \in CallsOf("listNamespacedCustomObject") : calls[i].namespace = "default"

\* Listing calls of pass g that name the plural p (and, when ns is given, the namespace ns).
ListingsOf(g, p, ns) ==
    {i \in 1..Len(calls) :
       /\ IsListing(i)
       /\ PassOf(i) = g
       /\ calls[i].plural = p
       /\ (ns # undefined => ("namespace" \in DOMAIN calls[i] /\ calls[i].namespace = ns))}

\* C23: a traversal issues the namespace-list call at most once, the
\* group-list call once, one discovery call per group/version of the
\* traversal, and within a pass no listing twice; by its end every
\* discovered pass has listed each listable namespaced kind once per
\* namespace of the scan set and each listable cluster-scoped kind once.
C23_EachUnitOnce ==
    /\ Cardinality(CallsOf("listNamespace")) <= 1
    /\ Cardinality(CallsOf("getAPIVersions")) <= 1
    /\ PassesBegun <= Len(PassOrder)
    /\ \A i, j \in 1..Len(calls) :
         (IsListing(i) /\ IsListing(j) /\ i < j /\ PassOf(i) = PassOf(j)) => calls[i] # calls[j]
    /\ pc = "done" =>
         /\ Cardinality(CallsOf("getAPIVersions")) = 1
         /\ PassesBegun = Len(PassOrder)
         /\ \A d \in Discovered :
              /\ \A r \in NamespacedListable :
                   \A n \in 1..Len(namespacesToScan) :
                      Cardinality(ListingsOf(PassOf(d), Offered[r].name, namespacesToScan[n])) = 1
              /\ \A r \in ClusterListable :
                   Cardinality(ListingsOf(PassOf(d), Offered[r].name, undefined)) = 1

C23_Witness ==
    /\ pc = "done"
    /\ PassesBegun = 3
    /\ cluster.discFail = {2}
    /\ \E i \in CallsOf("listNamespacedCustomObject") : Failed(i) /\ PassOf(i) = 3
    /\ \E i \in CallsOf("listClusterCustomObject") : Failed(i) /\ PassOf(i) = 1

\* Calls of the traversal that have settled.
SettledCalls == Len(calls) - Cardinality(inflight)

\* C24: at most one call of a traversal is outstanding, and it is the one
\* issued last: when a call goes out every earlier call has settled and the
\* records of every earlier call are in the output.
C24_OneCallOutstanding ==
    /\ Cardinality(inflight) <= 1
    /\ inflight # {} => (calls # <<>> /\ inflight = {calls[Len(calls)]} /\ pc = calls[Len(calls)].op)
    /\ (runs >= 1 /\ SettledCalls >= 0) => Len(allResources) = YieldUpTo(SettledCalls)

C24_Witness ==
    /\ pc = "listNamespacedCustomObject"
    /\ Cardinality(inflight) = 1
    /\ Len(calls) >= 4
    /\ Len(allResources) >= 3

(***************************************************************************)
(* Termination                                                             *)
(***************************************************************************)
Running == pc \notin {"idle", "done", "rejected"}

\* C25: when every call eventually completes, a traversal that has begun
\* eventually returns; and it returns in the very step in which the last
\* unit of work settles: a step of a running traversal that issues no
\* further call ends with the traversal returned and its output handed over.
C25_Terminates ==
    /\ [](Running => <>(pc = "done"))
    /\ [][(Running /\ Len(calls') = Len(calls) /\ runs' = runs) =>
            (pc' = "done" /\ returned' = allResources' /\ inflight' = {})]_vars
    /\ [][(Running /\ pc' = "done") =>
            \/ pc = "getAPIVersions"
            \/ PassesBegun = Len(PassOrder)]_vars

C25_Witness ==
    /\ pc = "done"
    /\ PassesBegun = 3
    /\ IsListing(Len(calls))
    /\ PassOf(Len(calls)) = 3

(***************************************************************************)
(* Properties of the records                                               *)
(***************************************************************************)
\* What an item reports about itself.
OwnNamespace(item) ==
    IF "metadata" \in DOMAIN item /\ "namespace" \in DOMAIN item.metadata
      THEN item.metadata.namespace ELSE undefined

OwnName(item) ==
    IF "metadata" \in DOMAIN item /\ "name" \in DOMAIN item.metadata
      THEN item.metadata.name ELSE undefined

\* The items the i-th call, a listing, was answered with.
ItemsListed(i) ==
    LET a == Answer(cluster, calls[i], SubSeq(calls, 1, i))
    IN  IF a.ok THEN ItemsOf(a.value) ELSE <<>>

IsNamespacedCall(i) == calls[i].op = "listNamespacedCustomObject"

\* Record rec is the instance record of item it of the i-th call.
IsInstanceOf(rec, i, it) ==
    /\ ~IsError(rec)
    /\ rec.kind = Offered[KindOf(calls[i].plural)].kind
    /\ rec.group = calls[i].group
    /\ rec.name = OwnName(it)
    /\ IF IsNamespacedCall(i)
         THEN "namespace" \in DOMAIN rec /\ rec.namespace = OwnNamespace(it)
         ELSE "namespace" \notin DOMAIN rec

\* C26: every instance record is the record of an item of a settled
\* listing: with the namespace and the name the item reports about itself
\* (whatever the namespace the listing was issued for) when the kind is
\* namespaced, and with its name and no namespace field when the kind is
\* cluster-scoped; and every item listed has its record.
C26_ItemsOwnMetadata ==
    /\ \A k \in 1..Len(allResources) :
         ~IsError(allResources[k]) =>
            \E i \in 1..Len(calls) :
               /\ IsListing(i) /\ Settled(i)
               /\ \E m \in 1..Len(ItemsListed(i)) :
                    IsInstanceOf(allResources[k], i, ItemsListed(i)[m])
    /\ \A i \in 1..Len(calls) :
         (IsListing(i) /\ Settled(i)) =>
            \A m \in 1..Len(ItemsListed(i)) :
               \E k \in 1..Len(allResources) : IsInstanceOf(allResources[k], i, ItemsListed(i)[m])

C26_Witness ==
    /\ pc = "done"
    /\ \E k \in 1..Len(returned), i \in CallsOf("listNamespacedCustomObject") :
         /\ ~IsError(returned[k])
         /\ returned[k].kind = "Deployment"
         /\ returned[k].namespace = "mirror"
         /\ calls[i].plural = "deployments"
         /\ calls[i].namespace = "default"
    /\ \E k \in 1..Len(returned) :
         ~IsError(returned[k]) /\ returned[k].kind = "Node" /\ "namespace" \notin DOMAIN returned[k]

\* Record rec has property f, with a value.
Has(rec, f) == f \in DOMAIN rec /\ rec[f] # undefined

IsInstanceShape(rec) ==
    /\ Has(rec, "group") /\ Has(rec, "version") /\ Has(rec, "kind") /\ Has(rec, "name")
    /\ ~Has(rec, "error")

IsErrorShape(rec) == Has(rec, "error") /\ ~Has(rec, "name")

\* C27: every record of the output is an instance record (group, version,
\* kind and name, no error) or an error record (an error message, no name),
\* never both; and a record once appended stays as it is, where it is, for
\* the rest of the traversal.
C27_RecordShapes ==
    /\ [](\A k \in 1..Len(allResources) :
            /\ IsInstanceShape(allResources[k]) \/ IsErrorShape(allResources[k])
            /\ ~(Has(allResources[k], "name") /\ Has(allResources[k], "error")))
    /\ [][runs' = runs => IsPrefix(allResources, allResources')]_vars

ErrorRecords(seq) == Cardinality({k \in 1..Len(seq) : IsError(seq[k])})

\* The calls among the first n of the traversal that the cluster rejected.
FailedCalls(n) == Cardinality({i \in 1..n : Failed(i)})

\* C28: the output holds as many error records as calls have failed: so
\* many after every settled call, so many in the returned sequence; the step
\* in which a call settles adds one error record when the call failed and
\* none when it succeeded.
C28_ErrorPerFailedCall ==
    /\ [](runs >= 1 => ErrorRecords(allResources) = FailedCalls(SettledCalls))
    /\ [](pc = "done" => ErrorRecords(returned) = FailedCalls(Len(calls)))
    /\ [][(Running /\ runs' = runs) =>
            ErrorRecords(allResources') =
              ErrorRecords(allResources) + (IF Failed(Len(calls)) THEN 1 ELSE 0)]_vars

C28_Witness ==
    /\ pc = "done"
    /\ FailedCalls(Len(calls)) >= 2
    /\ \E i \in 1..Len(calls) : ~Failed(i) /\ Yield(i) >= 1

IsNamespaceErrorRecord(rec) ==
    ~cluster.namespaces.ok /\ rec = NamespaceError(cluster.namespaces.message)

IsGroupListErrorRecord(rec) ==
    ~cluster.apiGroups.ok /\ rec = GroupListError(cluster.apiGroups.message)

\* The traversal as it stands once it has entered with no namespace on the
\* service and the namespace list has been rejected with msg.
AfterNamespaceFailure(msg) ==
    LET f0 == Entry([this EXCEPT !.namespace = undefined])
    IN  OnListNamespace([f0 EXCEPT !.inflight = {}], Rejected(msg))

\* C29: the record of a failed group list is the last record of the output
\* and the traversal has returned with it; the record of a failed namespace
\* discovery is the first record of the output; neither occurs at any other
\* position.  A traversal whose group list failed ends with that record.
\* The catch of the namespace list puts its record into the empty output,
\* before the first discovery call goes out.
C29_ErrorPositions ==
    /\ \A k \in 1..Len(allResources) :
         /\ IsGroupListErrorRecord(allResources[k]) => (k = Len(allResources) /\ pc = "done")
         /\ IsNamespaceErrorRecord(allResources[k]) => k = 1
    /\ (pc = "done" /\ ~cluster.apiGroups.ok) =>
         /\ allResources # <<>>
         /\ IsGroupListErrorRecord(allResources[Len(allResources)])
    /\ svcState = "ok" =>
         LET f == AfterNamespaceFailure("namespaces is forbidden")
         IN  /\ f.allResources = <<NamespaceError("namespaces is forbidden")>>
             /\ f.pc = "getAPIResources"
             /\ f.calls = <<[op |-> "listNamespace"], f.calls[2]>>

C29_Witness ==
    /\ pc = "done"
    /\ Len(allResources) >= 3
    /\ IsGroupListErrorRecord(allResources[Len(allResources)])
    /\ \E k \in 1..Len(allResources) - 1 : IsError(allResources[k])

\* The names the namespace-list call of this traversal has returned.
NamesReturned ==
    IF CallsOf("listNamespace") # {} /\ cluster.namespaces.ok
         /\ "items" \in DOMAIN cluster.namespaces.value
      THEN {NamespaceNames(cluster.namespaces.value.items)[k] :
              k \in 1..Len(cluster.namespaces.value.items)}
      ELSE {}

AllowedNamespaces ==
    (IF ConfiguredNamespace THEN {cfg.namespace} ELSE {}) \cup NamesReturned \cup {"default"}

\* C30: the namespace of every namespaced listing call is a non-empty
\* string, and it is the namespace of the config, a name the namespace-list
\* call returned, or "default"; the same holds of every member of the scan
\* set while a traversal runs.
C30_NamespacesNonEmpty ==
    /\ \A i \in CallsOf("listNamespacedCustomObject") :
         /\ calls[i].namespace \notin {"", undefined}
         /\ calls[i].namespace \in AllowedNamespaces
    /\ Running =>
         \A n \in 1..Len(namespacesToScan) :
            /\ namespacesToScan[n] \notin {"", undefined}
            /\ namespacesToScan[n] \in AllowedNamespaces

C30_Witness ==
    /\ cfg.namespace = ""
    /\ pc = "done"
    /\ Cardinality(CallsOf("listNamespacedCustomObject")) >= 2
    /\ \A i \in CallsOf("listNamespacedCustomObject") : calls[i].namespace = "default"
====
